---- MODULE Spec2Model ----
(***************************************************************************)
(* TL2-style software transactional memory (src/tm.cpp and its helpers).   *)
(*                                                                         *)
(* Every thread runs one transaction: tm_begin, then tm_read / tm_write    *)
(* calls of one word each (size = align), then tm_end.  Every atomic       *)
(* access to shared state (a stripe's lock_state, the clock, current_txs,  *)
(* a shared word) is one step; the thread-local work around it belongs to  *)
(* the same step.  `delete transaction` leaves the thread in a terminal    *)
(* pc: "committed" (tm_end returned true), "aborted_end" (tm_end returned  *)
(* false) or "aborted_read" (tm_read returned false); the fields of the    *)
(* deleted transaction are kept as they were at that moment and no action  *)
(* reads them again.                                                       *)
(***************************************************************************)
EXTENDS Integers, Sequences, FiniteSets, TLC

\* ---------------------------------------------------------------- bounds
NumTx == 2          \* threads, one transaction each
NumWords == 3       \* words of the first segment (size = NumWords * Align)
MaxOps == 3         \* tm_read / tm_write calls per transaction
MaxTotal == 4       \* tm_read / tm_write calls of all transactions together
MaxCeiling == 1     \* the admission ceiling is any of 0..MaxCeiling

\* ------------------------------------------------------ program constants
Align == 1              \* tm_create(size, align): one-byte words
Start == 8              \* the address posix_memalign returned for the segment
LOCK_ARRAY_SIZE == 2    \* glob_constants.h (not in src/): words 0 and 2 alias

\* glob_constants.h (not in src/): the values of MAX_SIMUL_TXS that are tried.
\* With 0 a transaction is refused whenever another is in its commit phase;
\* with NumTx - 1 or more none is ever refused.
CeilingValues == 0..MaxCeiling

Tx == 1..NumTx
Addr == {Start + i * Align : i \in 0..(NumWords - 1)}
Stripe == 0..(LOCK_ARRAY_SIZE - 1)

VARIABLES
    mem,            \* the shared words, by address
    locks,          \* Region::locks[i].lock_state
    clock,          \* Region::clock
    current_txs,    \* Region::current_txs
    MAX_SIMUL_TXS,  \* the admission ceiling, a compile-time constant: Init fixes it
    pc,             \* where each thread is
    tx,             \* each thread's Transaction
    loc,            \* the locals of the call each thread is in
    nops,           \* tm_read / tm_write calls made so far
    \* history variables: they record, and no guard reads them
    rd,             \* outcome of the thread's last finished tm_read
    lastW,          \* per word: the transaction that last wrote it back, 0 if none
    dirty,          \* a word of the read set was published by another before wv
    begunAfter,     \* the transactions whose tm_end had returned true at tm_begin
    predW,          \* <<stripe, u>>: u had published the stripe when it was acquired
    solo,           \* no other transaction was in its commit phase during the run
    wlog,           \* the <<target, value>> of the thread's tm_write calls
    owner           \* per stripe: whose CAS set the lock bit, 0 if none

vars == <<mem, locks, clock, current_txs, MAX_SIMUL_TXS, pc, tx, loc, nops,
          rd, lastW, dirty, begunAfter, predW, solo, wlog, owner>>

hist == <<rd, lastW, dirty, begunAfter, predW, solo, wlog, owner>>

\* the threads of the run: those Init gave a place
Threads == DOMAIN pc

\* ------------------------------------------------------------- helpers

\* ((uintptr_t) address) % LOCK_ARRAY_SIZE
lock_index(a) == a % LOCK_ARRAY_SIZE

\* lock_state & 0x1
LockBit(s) == s % 2

\* lock_state >> 0x1
Version(s) == s \div 2

\* LinkedList::get from node i on: the index of the node found, 0 for nullptr
RECURSIVE GetFrom(_, _, _)
GetFrom(list, i, address) ==
    IF i > Len(list) THEN 0
    ELSE IF list[i].address > address THEN 0
    ELSE IF list[i].address = address THEN i
    ELSE GetFrom(list, i + 1, address)

LinkedList_get(list, address) == GetFrom(list, 1, address)

\* LinkedList::add: the node becomes the tail
LinkedList_add(list, node) == Append(list, node)

\* Node(address, val, val_size)
Node(address, val) == [address |-> address, val |-> val]

\* Transaction(is_ro, clockVersion)
Transaction(is_ro, clockVersion) ==
    [is_ro |-> is_ro, writeList |-> <<>>, readList |-> <<>>,
     rv |-> clockVersion, wv |-> -1]

NoTx == [is_ro |-> FALSE, writeList |-> <<>>, readList |-> <<>>, rv |-> 0, wv |-> -1]
NoLoc == [addr |-> 0, node |-> 0, locked_node |-> 0, state |-> 0, buf |-> 0]
NoRead == [a |-> 0, v |-> 0, ok |-> FALSE, ws |-> FALSE, lw |-> 0, own |-> 0]

\* faulty variant: the snapshot is taken one ahead of the clock
getClockVersion_Ahead == clock + 1

\* Region::getClockVersion
getClockVersion == clock

\* faulty variant: fetch_add's return value is used as it is, without the + 1
incrementClockVersion_Old == clock

\* Region::incrementClockVersion: clock.fetch_add(1) + 1
incrementClockVersion == clock + 1

\* faulty variant: the loaded lock bit is not tested
LockTaken_Never(state) == FALSE

\* versionSpinLock_acquire: if (state & 1) return false
LockTaken(state) == LockBit(state) = 1

\* faulty variant: a plain store in place of the compare-exchange
CasSucceeds_Always(s, expected) == TRUE

\* versionSpinLock_acquire: compare_exchange_strong(state, ...) succeeds
CasSucceeds(s, expected) == locks[s] = expected

\* faulty variant: the CAS stores the state back without the lock bit
AcquiredState_NoBit(state) == state

\* versionSpinLock_acquire: the value the CAS stores, state | 1
AcquiredState(state) == IF state % 2 = 1 THEN state ELSE state + 1

\* faulty variant: the stripe is released without the word being written
WriteBack_NoCopy(m, node) == m

\* transaction_commit_and_release_locks: memcpy(node->address, node->val, align)
WriteBack(m, node) == [m EXCEPT ![node.address] = node.val]

\* the addresses of the nodes of a list
Addresses(list) == {list[i].address : i \in 1..Len(list)}

\* the value the transaction's write set holds for an address: the val of the
\* last node with that address (the one written back last), 0 if there is none
RECURSIVE ValFrom(_, _, _)
ValFrom(list, i, address) ==
    IF i = 0 THEN 0
    ELSE IF list[i].address = address THEN list[i].val
    ELSE ValFrom(list, i - 1, address)

BufferedVal(t, address) == ValFrom(tx[t].writeList, Len(tx[t].writeList), address)

\* faulty variant: the release stores 0, which clears the version with the bit
versionSpinLock_release_Clear(s) == [locks EXCEPT ![s] = 0]

\* versionSpinLock_release: lock_state.fetch_sub(1)
versionSpinLock_release(s) == [locks EXCEPT ![s] = @ - 1]

\* versionSpinLock_set_and_release: lock_state.store(version << 1)
versionSpinLock_set_and_release(s, version) == [locks EXCEPT ![s] = version * 2]

\* faulty variant: the version of the stripe is not compared with rv
ReadFails_NoVersion(pre, post, rv) == pre # post \/ LockBit(post) = 1

\* the test that aborts a speculative read (tm_read)
ReadFails(pre, post, rv) ==
    pre # post \/ Version(post) > rv \/ LockBit(post) = 1

\* faulty variant: validation only looks at the lock bit
ValidationFails_NoVersion(lock_state, rv) == LockBit(lock_state) = 1

\* the test that aborts read-set validation (tm_end)
ValidationFails(lock_state, rv) ==
    Version(lock_state) > rv \/ LockBit(lock_state) = 1

\* The bytes the k-th call of thread t hands to tm_write.  The code only copies
\* values and never inspects them, so every write gets a value of its own (the
\* region starts zeroed): whose write a word holds is then visible in the word.
SourceWord(t, k) == 10 * t + k

RECURSIVE SumOps(_)
SumOps(S) ==
    IF S = {} THEN 0
    ELSE LET x == CHOOSE x \in S : TRUE IN nops[x] + SumOps(S \ {x})

\* a further tm_read / tm_write call of thread t is within the bounds
MayCall(t) == nops[t] < MaxOps /\ SumOps(Threads) < MaxTotal

Terminal == {"committed", "aborted_end", "aborted_read"}

Live(t) == pc[t] \notin ({"idle"} \cup Terminal)

CommitPCs == {"end_inc", "end_acq_load", "end_acq_cas", "end_rollback", "end_clock",
              "end_validate", "end_vfail", "end_wb_copy", "end_wb_rel", "end_dec"}

InCommit(t) == pc[t] \in CommitPCs

\* ---------------------------------------------------------------- Init

\* the region after tm_create, with the threads T about to run
InitThreads(T) ==
    /\ mem = [a \in Addr |-> 0]
    /\ locks = [s \in Stripe |-> 0]
    /\ clock = 0
    /\ current_txs = 0
    /\ MAX_SIMUL_TXS \in CeilingValues
    /\ pc = [t \in T |-> "idle"]
    /\ tx = [t \in T |-> NoTx]
    /\ loc = [t \in T |-> NoLoc]
    /\ nops = [t \in T |-> 0]
    /\ rd = [t \in T |-> NoRead]
    /\ lastW = [a \in Addr |-> 0]
    /\ dirty = [t \in T |-> FALSE]
    /\ begunAfter = [t \in T |-> {}]
    /\ predW = [t \in T |-> {}]
    /\ solo = [t \in T |-> FALSE]
    /\ wlog = [t \in T |-> <<>>]
    /\ owner = [s \in Stripe |-> 0]

Init == InitThreads(Tx)

\* ------------------------------------------------------------- tm_begin

tm_begin(t, is_ro) ==
    /\ pc[t] = "idle"
    /\ tx' = [tx EXCEPT ![t] = Transaction(is_ro, getClockVersion)]
    /\ pc' = [pc EXCEPT ![t] = "active"]
    /\ begunAfter' = [begunAfter EXCEPT ![t] = {u \in Threads : pc[u] = "committed"}]
    /\ solo' = [solo EXCEPT ![t] = \A u \in Threads : ~InCommit(u)]
    /\ UNCHANGED <<mem, locks, clock, current_txs, MAX_SIMUL_TXS, loc, nops,
                   rd, lastW, dirty, predW, wlog, owner>>

\* ------------------------------------------------------------- tm_write

\* faulty variant: the value is also copied to the shared word at once
tm_write_Through(t, target, v) ==
    /\ pc[t] = "active"
    /\ ~tx[t].is_ro
    /\ MayCall(t)
    /\ LET writeList == tx[t].writeList
           node == LinkedList_get(writeList, target)
       IN  tx' = [tx EXCEPT ![t].writeList =
                    IF node # 0
                    THEN [writeList EXCEPT ![node].val = v]
                    ELSE LinkedList_add(writeList, Node(target, v))]
    /\ mem' = [mem EXCEPT ![target] = v]
    /\ nops' = [nops EXCEPT ![t] = @ + 1]
    /\ wlog' = [wlog EXCEPT ![t] = Append(@, <<target, v>>)]
    /\ UNCHANGED <<locks, clock, current_txs, MAX_SIMUL_TXS, pc, loc,
                   rd, lastW, dirty, begunAfter, predW, solo, owner>>

\* faulty variant: a node that is found keeps the value of the first write
tm_write_KeepFirst(t, target, v) ==
    /\ pc[t] = "active"
    /\ ~tx[t].is_ro
    /\ MayCall(t)
    /\ LET writeList == tx[t].writeList
           node == LinkedList_get(writeList, target)
       IN  tx' = [tx EXCEPT ![t].writeList =
                    IF node # 0
                    THEN writeList
                    ELSE LinkedList_add(writeList, Node(target, v))]
    /\ nops' = [nops EXCEPT ![t] = @ + 1]
    /\ wlog' = [wlog EXCEPT ![t] = Append(@, <<target, v>>)]
    /\ UNCHANGED <<mem, locks, clock, current_txs, MAX_SIMUL_TXS, pc, loc,
                   rd, lastW, dirty, begunAfter, predW, solo, owner>>

\* tm_write of one word: the node of the address is overwritten in place when
\* LinkedList::get finds it, a new node is appended otherwise.  (Hosts do not
\* write in a transaction they began read-only.)
tm_write(t, target, v) ==
    /\ pc[t] = "active"
    /\ ~tx[t].is_ro
    /\ MayCall(t)
    /\ LET writeList == tx[t].writeList
           node == LinkedList_get(writeList, target)
       IN  tx' = [tx EXCEPT ![t].writeList =
                    IF node # 0
                    THEN [writeList EXCEPT ![node].val = v]
                    ELSE LinkedList_add(writeList, Node(target, v))]
    /\ nops' = [nops EXCEPT ![t] = @ + 1]
    /\ wlog' = [wlog EXCEPT ![t] = Append(@, <<target, v>>)]
    /\ UNCHANGED <<mem, locks, clock, current_txs, MAX_SIMUL_TXS, pc, loc,
                   rd, lastW, dirty, begunAfter, predW, solo, owner>>

\* -------------------------------------------------------------- tm_read

\* tm_read, up to the first sample of the stripe: a word found in the write set
\* is copied from its node and the call returns; otherwise pre_lock_status is
\* sampled.  A read-only transaction never looks at its write set.
tm_read_pre(t, source) ==
    /\ pc[t] = "active"
    /\ MayCall(t)
    /\ nops' = [nops EXCEPT ![t] = @ + 1]
    /\ LET node == LinkedList_get(tx[t].writeList, source)
       IN  IF ~tx[t].is_ro /\ node # 0
           THEN /\ loc' = loc
                /\ rd' = [rd EXCEPT ![t] = [a |-> source,
                                            v |-> tx[t].writeList[node].val,
                                            ok |-> TRUE, ws |-> TRUE, lw |-> 0,
                                            own |-> BufferedVal(t, source)]]
                /\ pc' = pc
           ELSE /\ loc' = [loc EXCEPT ![t] = [NoLoc EXCEPT
                                        !.addr = source,
                                        !.state = locks[lock_index(source)]]]
                /\ pc' = [pc EXCEPT ![t] = "rd_copy"]
                /\ rd' = rd
    /\ UNCHANGED <<mem, locks, clock, current_txs, MAX_SIMUL_TXS, tx,
                   lastW, dirty, begunAfter, predW, solo, wlog, owner>>

\* faulty variant: memcpy with its arguments exchanged, the caller's buffer is
\* copied over the shared word
tm_read_copy_Reversed(t) ==
    /\ pc[t] = "rd_copy"
    /\ mem' = [mem EXCEPT ![loc[t].addr] = loc[t].buf]
    /\ pc' = [pc EXCEPT ![t] = "rd_post"]
    /\ UNCHANGED <<locks, clock, current_txs, MAX_SIMUL_TXS, tx, loc, nops, hist>>

\* memcpy(target, source, align)
tm_read_copy(t) ==
    /\ pc[t] = "rd_copy"
    /\ loc' = [loc EXCEPT ![t].buf = mem[loc[t].addr]]
    /\ pc' = [pc EXCEPT ![t] = "rd_post"]
    /\ UNCHANGED <<mem, locks, clock, current_txs, MAX_SIMUL_TXS, tx, nops, hist>>

\* post_lock_status is sampled and compared: abort (delete transaction, return
\* false), or add the address to the read set (read-write path) and return true
tm_read_post(t) ==
    /\ pc[t] = "rd_post"
    /\ LET post == locks[lock_index(loc[t].addr)]
           fails == ReadFails(loc[t].state, post, tx[t].rv)
       IN  /\ pc' = [pc EXCEPT ![t] = IF fails THEN "aborted_read" ELSE "active"]
           /\ tx' = IF fails \/ tx[t].is_ro THEN tx
                    ELSE [tx EXCEPT ![t].readList =
                             LinkedList_add(@, Node(loc[t].addr, 0))]
           /\ rd' = [rd EXCEPT ![t] = [a |-> loc[t].addr, v |-> loc[t].buf,
                                       ok |-> ~fails, ws |-> FALSE,
                                       lw |-> lastW[loc[t].addr],
                                       own |-> BufferedVal(t, loc[t].addr)]]
    /\ loc' = [loc EXCEPT ![t] = NoLoc]
    /\ UNCHANGED <<mem, locks, clock, current_txs, MAX_SIMUL_TXS, nops,
                   lastW, dirty, begunAfter, predW, solo, wlog, owner>>

\* --------------------------------------------------------------- tm_end

\* the other live transactions stop being alone once t enters its commit phase
NotSolo(t) ==
    [u \in Threads |-> IF u # t /\ Live(u) THEN FALSE ELSE solo[u]]

\* tm_end up to the admission check: a read-only transaction or an empty write
\* set commits at once; otherwise current_txs is loaded and compared
tm_end_start(t) ==
    /\ pc[t] = "active"
    /\ IF tx[t].is_ro \/ tx[t].writeList = <<>>
       THEN /\ pc' = [pc EXCEPT ![t] = "committed"]
            /\ solo' = solo
       ELSE IF current_txs > MAX_SIMUL_TXS
       THEN /\ pc' = [pc EXCEPT ![t] = "aborted_end"]
            /\ solo' = solo
       ELSE /\ pc' = [pc EXCEPT ![t] = "end_inc"]
            /\ solo' = NotSolo(t)
    /\ UNCHANGED <<mem, locks, clock, current_txs, MAX_SIMUL_TXS, tx, loc, nops,
                   rd, lastW, dirty, begunAfter, predW, wlog, owner>>

\* region->current_txs.fetch_add(1); node = writeList->getHead()
tm_end_inc(t) ==
    /\ pc[t] = "end_inc"
    /\ current_txs' = current_txs + 1
    /\ loc' = [loc EXCEPT ![t] = [NoLoc EXCEPT !.node = 1]]
    /\ pc' = [pc EXCEPT ![t] = "end_acq_load"]
    /\ UNCHANGED <<mem, locks, clock, MAX_SIMUL_TXS, tx, nops, hist>>

\* faulty variant: a stripe found locked is loaded again until it is free
tm_end_acq_load_Retry(t) ==
    /\ pc[t] = "end_acq_load"
    /\ LET s == lock_index(tx[t].writeList[loc[t].node].address)
       IN  IF LockTaken(locks[s])
           THEN /\ loc' = [loc EXCEPT ![t].state = locks[s]]
                /\ pc' = pc
           ELSE /\ loc' = [loc EXCEPT ![t].state = locks[s]]
                /\ pc' = [pc EXCEPT ![t] = "end_acq_cas"]
    /\ UNCHANGED <<mem, locks, clock, current_txs, MAX_SIMUL_TXS, tx, nops, hist>>

\* versionSpinLock_acquire: state = lock_state.load(); a set lock bit fails
tm_end_acq_load(t) ==
    /\ pc[t] = "end_acq_load"
    /\ LET s == lock_index(tx[t].writeList[loc[t].node].address)
       IN  IF LockTaken(locks[s])
           THEN /\ loc' = [loc EXCEPT ![t].locked_node = 1]
                /\ pc' = [pc EXCEPT ![t] = "end_rollback"]
           ELSE /\ loc' = [loc EXCEPT ![t].state = locks[s]]
                /\ pc' = [pc EXCEPT ![t] = "end_acq_cas"]
    /\ UNCHANGED <<mem, locks, clock, current_txs, MAX_SIMUL_TXS, tx, nops, hist>>

\* the transactions that have written back and released stripe s
Published(s) ==
    {u \in Threads :
        /\ tx[u].wv # -1
        /\ \/ pc[u] \in {"end_dec", "committed"}
           \/ /\ pc[u] \in {"end_wb_copy", "end_wb_rel"}
              /\ \E i \in 1..(loc[u].node - 1) :
                    lock_index(tx[u].writeList[i].address) = s}

\* versionSpinLock_acquire: compare_exchange_strong(state, state | 1), then
\* node = node->next
tm_end_acq_cas(t) ==
    /\ pc[t] = "end_acq_cas"
    /\ LET s == lock_index(tx[t].writeList[loc[t].node].address)
       IN  IF CasSucceeds(s, loc[t].state)
           THEN /\ locks' = [locks EXCEPT ![s] = AcquiredState(loc[t].state)]
                /\ loc' = [loc EXCEPT ![t].node = @ + 1, ![t].state = 0]
                /\ pc' = [pc EXCEPT ![t] =
                            IF loc[t].node = Len(tx[t].writeList)
                            THEN "end_clock" ELSE "end_acq_load"]
                /\ predW' = [predW EXCEPT ![t] =
                                @ \cup {<<s, u>> : u \in Published(s) \ {t}}]
                /\ owner' = [owner EXCEPT ![s] = t]
           ELSE /\ locks' = locks
                /\ loc' = [loc EXCEPT ![t].locked_node = 1, ![t].state = 0]
                /\ pc' = [pc EXCEPT ![t] = "end_rollback"]
                /\ UNCHANGED <<predW, owner>>
    /\ UNCHANGED <<mem, clock, current_txs, MAX_SIMUL_TXS, tx, nops,
                   rd, lastW, dirty, begunAfter, solo, wlog>>

\* faulty variant: the rollback also releases the stripe of the node whose
\* acquisition failed
tm_end_rollback_Through(t) ==
    /\ pc[t] = "end_rollback"
    /\ IF loc[t].locked_node # loc[t].node + 1
       THEN /\ LET s == lock_index(tx[t].writeList[loc[t].locked_node].address)
               IN  /\ locks' = versionSpinLock_release(s)
                   /\ owner' = [owner EXCEPT ![s] = 0]
            /\ loc' = [loc EXCEPT ![t].locked_node = @ + 1]
            /\ UNCHANGED <<current_txs, pc>>
       ELSE /\ current_txs' = current_txs - 1
            /\ pc' = [pc EXCEPT ![t] = "aborted_end"]
            /\ loc' = [loc EXCEPT ![t] = NoLoc]
            /\ UNCHANGED <<locks, owner>>
    /\ UNCHANGED <<mem, clock, MAX_SIMUL_TXS, tx, nops,
                   rd, lastW, dirty, begunAfter, predW, solo, wlog>>

\* the acquisition failed at node: release the stripes of the nodes before it,
\* then current_txs.fetch_sub(1), delete transaction, return false
tm_end_rollback(t) ==
    /\ pc[t] = "end_rollback"
    /\ IF loc[t].locked_node # loc[t].node
       THEN /\ LET s == lock_index(tx[t].writeList[loc[t].locked_node].address)
               IN  /\ locks' = versionSpinLock_release(s)
                   /\ owner' = [owner EXCEPT ![s] = 0]
            /\ loc' = [loc EXCEPT ![t].locked_node = @ + 1]
            /\ UNCHANGED <<current_txs, pc>>
       ELSE /\ current_txs' = current_txs - 1
            /\ pc' = [pc EXCEPT ![t] = "aborted_end"]
            /\ loc' = [loc EXCEPT ![t] = NoLoc]
            /\ UNCHANGED <<locks, owner>>
    /\ UNCHANGED <<mem, clock, MAX_SIMUL_TXS, tx, nops,
                   rd, lastW, dirty, begunAfter, predW, solo, wlog>>

\* transaction->wv = region->incrementClockVersion(); validation is skipped
\* when rv + 1 == wv (and has nothing to do on an empty read set)
tm_end_clock(t) ==
    /\ pc[t] = "end_clock"
    /\ clock' = clock + 1
    /\ tx' = [tx EXCEPT ![t].wv = incrementClockVersion]
    /\ loc' = [loc EXCEPT ![t].node = 1]
    /\ pc' = [pc EXCEPT ![t] =
                IF tx[t].rv + 1 # incrementClockVersion /\ tx[t].readList # <<>>
                THEN "end_validate" ELSE "end_wb_copy"]
    /\ UNCHANGED <<mem, locks, current_txs, MAX_SIMUL_TXS, nops, hist>>

\* one read-set node: lock_state = getSpinLockState(lock_index) and the test
tm_end_validate(t) ==
    /\ pc[t] = "end_validate"
    /\ LET lock_state == locks[lock_index(tx[t].readList[loc[t].node].address)]
       IN  IF ValidationFails(lock_state, tx[t].rv)
           THEN /\ loc' = [loc EXCEPT ![t].locked_node = 1]
                /\ pc' = [pc EXCEPT ![t] = "end_vfail"]
           ELSE /\ loc' = [loc EXCEPT ![t].node =
                              IF @ = Len(tx[t].readList) THEN 1 ELSE @ + 1]
                /\ pc' = [pc EXCEPT ![t] =
                            IF loc[t].node = Len(tx[t].readList)
                            THEN "end_wb_copy" ELSE "end_validate"]
    /\ UNCHANGED <<mem, locks, clock, current_txs, MAX_SIMUL_TXS, tx, nops, hist>>

\* faulty variant: the validation rollback releases with set_and_release(wv)
tm_end_vfail_SetVersion(t) ==
    /\ pc[t] = "end_vfail"
    /\ IF loc[t].locked_node <= Len(tx[t].writeList)
       THEN /\ LET s == lock_index(tx[t].writeList[loc[t].locked_node].address)
               IN  /\ locks' = versionSpinLock_set_and_release(s, tx[t].wv)
                   /\ owner' = [owner EXCEPT ![s] = 0]
            /\ loc' = [loc EXCEPT ![t].locked_node = @ + 1]
            /\ UNCHANGED <<current_txs, pc>>
       ELSE /\ current_txs' = current_txs - 1
            /\ pc' = [pc EXCEPT ![t] = "aborted_end"]
            /\ loc' = [loc EXCEPT ![t] = NoLoc]
            /\ UNCHANGED <<locks, owner>>
    /\ UNCHANGED <<mem, clock, MAX_SIMUL_TXS, tx, nops,
                   rd, lastW, dirty, begunAfter, predW, solo, wlog>>

\* validation failed: release the stripe of every write-set node, then
\* current_txs.fetch_sub(1), delete transaction, return false
tm_end_vfail(t) ==
    /\ pc[t] = "end_vfail"
    /\ IF loc[t].locked_node <= Len(tx[t].writeList)
       THEN /\ LET s == lock_index(tx[t].writeList[loc[t].locked_node].address)
               IN  /\ locks' = versionSpinLock_release(s)
                   /\ owner' = [owner EXCEPT ![s] = 0]
            /\ loc' = [loc EXCEPT ![t].locked_node = @ + 1]
            /\ UNCHANGED <<current_txs, pc>>
       ELSE /\ current_txs' = current_txs - 1
            /\ pc' = [pc EXCEPT ![t] = "aborted_end"]
            /\ loc' = [loc EXCEPT ![t] = NoLoc]
            /\ UNCHANGED <<locks, owner>>
    /\ UNCHANGED <<mem, clock, MAX_SIMUL_TXS, tx, nops,
                   rd, lastW, dirty, begunAfter, predW, solo, wlog>>

\* transaction_commit_and_release_locks: memcpy(node->address, node->val, align)
tm_end_wb_copy(t) ==
    /\ pc[t] = "end_wb_copy"
    /\ LET node == tx[t].writeList[loc[t].node]
       IN  /\ mem' = WriteBack(mem, node)
           /\ lastW' = [lastW EXCEPT ![node.address] = t]
    /\ pc' = [pc EXCEPT ![t] = "end_wb_rel"]
    /\ UNCHANGED <<locks, clock, current_txs, MAX_SIMUL_TXS, tx, loc, nops,
                   rd, dirty, begunAfter, predW, solo, wlog, owner>>

\* the transactions that have read the word and not yet drawn their wv
Readers(a) ==
    {u \in Threads : /\ Live(u)
                /\ tx[u].wv = -1
                /\ a \in Addresses(tx[u].readList)}

\* transaction_commit_and_release_locks: versionSpinLock_set_and_release(lock,
\* wv), node = node->next
tm_end_wb_rel(t) ==
    /\ pc[t] = "end_wb_rel"
    /\ LET node == tx[t].writeList[loc[t].node]
       IN  /\ locks' = versionSpinLock_set_and_release(lock_index(node.address),
                                                       tx[t].wv)
           /\ dirty' = [u \in Threads |->
                          dirty[u] \/ (u # t /\ u \in Readers(node.address))]
           /\ owner' = [owner EXCEPT ![lock_index(node.address)] = 0]
    /\ loc' = [loc EXCEPT ![t].node = @ + 1]
    /\ pc' = [pc EXCEPT ![t] =
                IF loc[t].node = Len(tx[t].writeList)
                THEN "end_dec" ELSE "end_wb_copy"]
    /\ UNCHANGED <<mem, clock, current_txs, MAX_SIMUL_TXS, tx, nops,
                   rd, lastW, begunAfter, predW, solo, wlog>>

\* faulty variant: the successful exit returns without the fetch_sub
tm_end_dec_Forgotten(t) ==
    /\ pc[t] = "end_dec"
    /\ pc' = [pc EXCEPT ![t] = "committed"]
    /\ loc' = [loc EXCEPT ![t] = NoLoc]
    /\ UNCHANGED <<mem, locks, clock, current_txs, MAX_SIMUL_TXS, tx, nops, hist>>

\* region->current_txs.fetch_sub(1); delete transaction; return true
tm_end_dec(t) ==
    /\ pc[t] = "end_dec"
    /\ current_txs' = current_txs - 1
    /\ pc' = [pc EXCEPT ![t] = "committed"]
    /\ loc' = [loc EXCEPT ![t] = NoLoc]
    /\ UNCHANGED <<mem, locks, clock, MAX_SIMUL_TXS, tx, nops, hist>>

\* ------------------------------------------------------------ the system

Next ==
    \E t \in Tx :
        \/ \E is_ro \in BOOLEAN : tm_begin(t, is_ro)
        \/ \E a \in Addr : tm_write(t, a, SourceWord(t, nops[t] + 1))
        \/ \E a \in Addr : tm_read_pre(t, a)
        \/ tm_read_copy(t)
        \/ tm_read_post(t)
        \/ tm_end_start(t)
        \/ tm_end_inc(t)
        \/ tm_end_acq_load(t)
        \/ tm_end_acq_cas(t)
        \/ tm_end_rollback(t)
        \/ tm_end_clock(t)
        \/ tm_end_validate(t)
        \/ tm_end_vfail(t)
        \/ tm_end_wb_copy(t)
        \/ tm_end_wb_rel(t)
        \/ tm_end_dec(t)

Spec == Init /\ [][Next]_vars

\* ------------------------------------------- the system, one thread more
\* One thread more than in Spec, each running a transaction of a single
\* tm_write followed by tm_end: the calls that meet at the admission check.

Committers == 1..(NumTx + 1)

InitCeiling == InitThreads(Committers)

NextCeiling ==
    \E t \in Committers :
        \/ tm_begin(t, FALSE)
        \/ nops[t] = 0 /\ \E a \in Addr : tm_write(t, a, SourceWord(t, 1))
        \/ tm_end_start(t)
        \/ tm_end_inc(t)
        \/ tm_end_acq_load(t)
        \/ tm_end_acq_cas(t)
        \/ tm_end_rollback(t)
        \/ tm_end_clock(t)
        \/ tm_end_wb_copy(t)
        \/ tm_end_wb_rel(t)
        \/ tm_end_dec(t)

SpecCeiling == InitCeiling /\ [][NextCeiling]_vars

\* ------------------------------------------- the system, fairly scheduled
\* A thread that is inside tm_read or tm_end keeps being scheduled: each of
\* its steps is taken sooner or later.  Nothing obliges the host to make a
\* call (tm_begin, tm_read, tm_write, tm_end).  The ceiling is 0, the value
\* with which a transaction is refused whenever another is committing.

\* a step of thread t inside the call it is in
CallStep(t) ==
    \/ tm_read_copy(t)
    \/ tm_read_post(t)
    \/ tm_end_inc(t)
    \/ tm_end_acq_load(t)
    \/ tm_end_acq_cas(t)
    \/ tm_end_rollback(t)
    \/ tm_end_clock(t)
    \/ tm_end_validate(t)
    \/ tm_end_vfail(t)
    \/ tm_end_wb_copy(t)
    \/ tm_end_wb_rel(t)
    \/ tm_end_dec(t)

InitFair == Init /\ MAX_SIMUL_TXS = 0

FairSpec ==
    InitFair /\ [][Next]_vars /\ \A t \in Tx : WF_vars(CallStep(t))

\* ------------------------------------- notions the properties are stated in

\* t drew its wv and passed read-set validation: its commit is decided
PassedValidation(t) ==
    /\ tx[t].wv # -1
    /\ pc[t] \in {"end_wb_copy", "end_wb_rel", "end_dec", "committed"}

\* tm_end returned true after the commit protocol (a writer's commit)
CommittedWriter(t) == pc[t] = "committed" /\ tx[t].wv # -1

\* the stripes of the write set
WriteStripes(t) == {lock_index(a) : a \in Addresses(tx[t].writeList)}

\* no two nodes of the write set fall on one stripe: every written address has
\* one node, and different addresses have different stripes
OneNodePerStripe(t) == Cardinality(WriteStripes(t)) = Len(tx[t].writeList)

\* the stripes of the write-set nodes i..j
NodeStripes(t, i, j) ==
    {lock_index(tx[t].writeList[k].address) : k \in i..j}

\* the stripes t holds: acquired by its try_acquire and not yet released
Holds(t) ==
    CASE pc[t] \in {"end_acq_load", "end_acq_cas"} ->
            NodeStripes(t, 1, loc[t].node - 1)
      [] pc[t] = "end_rollback" ->
            NodeStripes(t, loc[t].locked_node, loc[t].node - 1)
      [] pc[t] \in {"end_clock", "end_validate"} ->
            NodeStripes(t, 1, Len(tx[t].writeList))
      [] pc[t] = "end_vfail" ->
            NodeStripes(t, loc[t].locked_node, Len(tx[t].writeList))
      [] pc[t] \in {"end_wb_copy", "end_wb_rel"} ->
            NodeStripes(t, loc[t].node, Len(tx[t].writeList))
      [] OTHER -> {}

\* the value of the last of the first i tm_write calls that had target a
RECURSIVE LastIn(_, _, _)
LastIn(log, i, a) ==
    IF i = 0 THEN 0
    ELSE IF log[i][1] = a THEN log[i][2]
    ELSE LastIn(log, i - 1, a)

\* the value handed to the transaction's last tm_write of word a
LastWritten(t, a) == LastIn(wlog[t], Len(wlog[t]), a)

\* the tm_write calls of the transaction that had target a
WriteCalls(t, a) == {i \in 1..Len(wlog[t]) : wlog[t][i][1] = a}

\* the distinct targets of the first i tm_write calls, in first-write order
RECURSIVE FirstWrites(_, _)
FirstWrites(log, i) ==
    IF i = 0 THEN <<>>
    ELSE LET before == FirstWrites(log, i - 1)
         IN  IF \E j \in 1..Len(before) : before[j] = log[i][1]
             THEN before
             ELSE Append(before, log[i][1])

\* thread t is inside a tm_read or a tm_end that has not returned
InCall(t) == pc[t] \in CommitPCs \cup {"rd_copy", "rd_post"}

\* the steps thread t has at most left in the call it is in, from its own
\* position and the lengths of its own lists: W write-set and R read-set nodes
StepsLeft(t) ==
    LET W == Len(tx[t].writeList)
        R == Len(tx[t].readList)
        n == loc[t].node
        fromClock == 2 * W + R + 2
    IN  CASE pc[t] = "rd_copy" -> 2
          [] pc[t] = "rd_post" -> 1
          [] pc[t] = "end_inc" -> 2 * W + 1 + fromClock
          [] pc[t] = "end_acq_load" -> 2 * (W - n + 1) + fromClock
          [] pc[t] = "end_acq_cas" -> 2 * (W - n + 1) - 1 + fromClock
          [] pc[t] = "end_rollback" -> n - loc[t].locked_node + 1
          [] pc[t] = "end_clock" -> fromClock
          [] pc[t] = "end_validate" -> (R - n + 1) + 2 * W + 1
          [] pc[t] = "end_vfail" -> W - loc[t].locked_node + 2
          [] pc[t] = "end_wb_copy" -> 2 * (W - n + 1) + 1
          [] pc[t] = "end_wb_rel" -> 2 * (W - n + 1)
          [] pc[t] = "end_dec" -> 1
          [] OTHER -> 0

\* the step is one of thread t: only t's own actions change these
StepOf(t) ==
    pc'[t] # pc[t] \/ tx'[t] # tx[t] \/ loc'[t] # loc[t] \/ nops'[t] # nops[t]

\* the value word a has after applying, in wv order, the writers whose commit
\* is decided and whose wv is at most rv (0: the zeroed region)
SnapshotVal(a, rv) ==
    LET W == {u \in Tx : /\ PassedValidation(u)
                         /\ tx[u].wv <= rv
                         /\ a \in Addresses(tx[u].writeList)}
    IN  IF W = {} THEN 0
        ELSE LET u == CHOOSE u \in W : \A x \in W : tx[x].wv <= tx[u].wv
             IN  BufferedVal(u, a)

\* ------------------------------------------------------------------ C1
\* C1: every tm_read that returned true with a value copied from shared memory
\* copied the value the word has after applying, in wv order, exactly the
\* committed writers with wv <= rv of the reader; this holds for read-only and
\* read-write readers, whether they later commit or abort.
C1_SnapshotReads ==
    \A t \in Tx :
        (rd[t].ok /\ ~rd[t].ws) => rd[t].v = SnapshotVal(rd[t].a, tx[t].rv)

\* a reader holds the old value of a word that a writer with wv > rv has
\* committed since
C1_Witness ==
    \E t \in Tx, u \in Tx :
        /\ t # u
        /\ rd[t].ok /\ ~rd[t].ws
        /\ CommittedWriter(u)
        /\ tx[u].wv > tx[t].rv
        /\ rd[t].a \in Addresses(tx[u].writeList)
        /\ mem[rd[t].a] # rd[t].v

\* ------------------------------------------------------------------ C2
\* C2: read-own-writes: a tm_read of a word for which the transaction's write
\* set holds a buffered value returns true and yields that value, taken from the
\* write set, whatever other addresses were written before it and in whatever
\* order.
C2_ReadOwnWrites ==
    \A t \in Tx :
        rd[t].own # 0 => (rd[t].ok /\ rd[t].ws /\ rd[t].v = rd[t].own)

\* ------------------------------------------------------------------ C3
\* C3: a transaction that drew a wv and whose tm_end returned true has no word
\* in its read set that another transaction published between the read and the
\* GVC increment, also when validation was skipped because rv + 1 == wv.
C3_NoStaleReadCommits ==
    \A t \in Tx : CommittedWriter(t) => ~dirty[t]

\* one transaction was refused for a stale read set while the other committed
\* with a non-empty read set and rv + 1 == wv (validation skipped)
C3_Witness ==
    \E t \in Tx, u \in Tx :
        /\ pc[t] = "aborted_end" /\ tx[t].wv # -1 /\ dirty[t]
        /\ CommittedWriter(u)
        /\ tx[u].readList # <<>>
        /\ tx[u].rv + 1 = tx[u].wv

\* ------------------------------------------------------------------ C4
\* C4 as stated: of two transactions whose write sets map to a common stripe
\* and whose tm_end both returned, exactly one tm_end returned true.  (Stated
\* for write sets with one node per stripe, so that neither transaction meets a
\* stripe it holds itself.)
C4_ExactlyOneCommits ==
    \A t \in Tx, u \in Tx :
        (/\ t # u
         /\ pc[t] \in {"committed", "aborted_end"}
         /\ pc[u] \in {"committed", "aborted_end"}
         /\ OneNodePerStripe(t) /\ OneNodePerStripe(u)
         /\ WriteStripes(t) \cap WriteStripes(u) # {})
        => (pc[t] = "committed") # (pc[u] = "committed")

\* C4 as amended: two transactions whose write sets map to a common stripe both
\* return true from tm_end only if one of them had written back and released
\* that stripe before the other acquired it.
C4_CommitsDoNotOverlap ==
    \A t \in Tx, u \in Tx :
        (/\ t # u
         /\ pc[t] = "committed" /\ pc[u] = "committed")
        => \A s \in WriteStripes(t) \cap WriteStripes(u) :
               <<s, u>> \in predW[t] \/ <<s, t>> \in predW[u]

\* both committed, one after the other, through a common stripe
C4_Witness ==
    \E t \in Tx, u \in Tx :
        /\ t # u
        /\ pc[t] = "committed" /\ pc[u] = "committed"
        /\ \E s \in WriteStripes(t) \cap WriteStripes(u) : <<s, u>> \in predW[t]

\* ------------------------------------------------------------------ C5
\* C5: a transaction begun after the tm_end of T returned true, reading from
\* shared memory a word that T was the last to write back, reads the value T
\* wrote.
C5_CommittedWritesVisible ==
    \A t \in Tx :
        (rd[t].ok /\ ~rd[t].ws /\ rd[t].lw \in begunAfter[t])
        => rd[t].v = BufferedVal(rd[t].lw, rd[t].a)

\* a later transaction has read a word the earlier one committed
C5_Witness ==
    \E t \in Tx :
        /\ rd[t].ok /\ ~rd[t].ws
        /\ rd[t].lw \in begunAfter[t]
        /\ rd[t].a \in Addresses(tx[rd[t].lw].writeList)
        /\ rd[t].v # 0

\* ------------------------------------------------------------------ C6
\* C6: a writer that ran while no other transaction was in its commit phase
\* commits: its tm_end returns true and every word of its write set holds the
\* buffered value.  (Stated for transactions whose written addresses fall on
\* different stripes, as the four words of the scenario do.)
C6_LoneWriterCommits ==
    \A t \in Tx :
        (/\ solo[t]
         /\ pc[t] \in {"committed", "aborted_end"}
         /\ tx[t].writeList # <<>>
         /\ \A a \in Addresses(tx[t].writeList), b \in Addresses(tx[t].writeList) :
               a # b => lock_index(a) # lock_index(b))
        => /\ pc[t] = "committed"
           /\ \A a \in Addresses(tx[t].writeList) :
                 lastW[a] = t => mem[a] = BufferedVal(t, a)

\* ------------------------------------------------------------------ C7
\* C7: every set_and_release stores on its stripe a version strictly greater
\* than the one the stripe held, and a rollback release leaves the version of
\* every stripe as it was.
C7_VersionsIncrease ==
    [][\A t \in Tx :
          /\ (pc[t] = "end_wb_rel" /\ pc'[t] # "end_wb_rel")
             => LET s == lock_index(tx[t].writeList[loc[t].node].address)
                IN  /\ Version(locks'[s]) > Version(locks[s])
                    /\ LockBit(locks'[s]) = 0
          /\ (/\ pc[t] \in {"end_rollback", "end_vfail"}
              /\ loc'[t].locked_node # loc[t].locked_node)
             => \A s \in Stripe : Version(locks'[s]) = Version(locks[s])]_vars

\* two transactions have published, one after the other, on the same stripe
C7_Witness ==
    \E t \in Tx, u \in Tx, s \in Stripe :
        /\ t # u
        /\ CommittedWriter(t) /\ CommittedWriter(u)
        /\ s \in WriteStripes(t) \cap WriteStripes(u)
        /\ Version(locks[s]) = 2

\* ------------------------------------------------------------------ C8
\* C8: two committed transactions that both wrote word a have different wv, the
\* one with the smaller wv had written a back and released its stripe before the
\* other acquired that stripe, and once every decided writer of a has returned
\* a holds the value of the one with the largest wv.
C8_OverlappingWritersOrdered ==
    \A t \in Tx, u \in Tx :
        (/\ t # u
         /\ CommittedWriter(t) /\ CommittedWriter(u))
        => \A a \in Addresses(tx[t].writeList) \cap Addresses(tx[u].writeList) :
              /\ tx[t].wv # tx[u].wv
              /\ tx[u].wv < tx[t].wv => <<lock_index(a), u>> \in predW[t]
              /\ (\A x \in Tx : (PassedValidation(x)
                                 /\ a \in Addresses(tx[x].writeList))
                                => pc[x] = "committed")
                 => mem[a] = SnapshotVal(a, clock)

\* two committed writers of one word; the word holds the later one's value
C8_Witness ==
    \E t \in Tx, u \in Tx, a \in Addr :
        /\ CommittedWriter(t) /\ CommittedWriter(u)
        /\ tx[u].wv < tx[t].wv
        /\ a \in Addresses(tx[t].writeList) \cap Addresses(tx[u].writeList)
        /\ mem[a] = BufferedVal(t, a)

\* ------------------------------------------------------------------ C9
\* C9: at most one transaction holds a stripe's lock at any time, the lock bit
\* is set exactly while some transaction holds the stripe, and so at most one
\* transaction is writing back to words of the stripe.
C9_MutualExclusion ==
    \A s \in Stripe :
        /\ \A t \in Tx, u \in Tx : (s \in Holds(t) /\ s \in Holds(u)) => t = u
        /\ LockBit(locks[s]) = 1 <=> \E t \in Tx : s \in Holds(t)

\* a transaction is turned away from a stripe that another holds for a
\* different address
C9_Witness ==
    \E t \in Tx, u \in Tx :
        /\ t # u
        /\ pc[u] = "end_rollback"
        /\ LET a == tx[u].writeList[loc[u].node].address
           IN  /\ lock_index(a) \in Holds(t)
               /\ a \notin Addresses(tx[t].writeList)

\* ----------------------------------------------------------------- C10
\* C10 as stated: every transaction whose tm_end returned true has wv > rv.
C10_WvAboveRv ==
    \A t \in Tx : pc[t] = "committed" => tx[t].wv > tx[t].rv

\* C10 as amended: a transaction whose tm_end returned true has wv > rv when it
\* went through the commit protocol, and still has wv = -1 when it is read-only
\* or its write set is empty.
C10_WriterWvAboveRv ==
    \A t \in Tx :
        pc[t] = "committed"
        => IF tx[t].is_ro \/ tx[t].writeList = <<>>
           THEN tx[t].wv = -1
           ELSE tx[t].wv > tx[t].rv

\* a writer committed after another had advanced the clock past its rv
C10_Witness ==
    \E t \in Tx : CommittedWriter(t) /\ tx[t].wv > tx[t].rv + 1

\* ----------------------------------------------------------------- C11
\* C11: every step of a read-only transaction, from its tm_begin through its
\* tm_read calls to its tm_end, leaves every shared word, the clock, the
\* admission counter and every stripe's lock_state (version and lock bit) as
\* they were; it never enters the commit protocol and its tm_end returns true.
C11_ReadOnlyChangesNothing ==
    [][\A t \in Tx :
          (tx'[t].is_ro /\ StepOf(t))
          => /\ UNCHANGED <<mem, locks, clock, current_txs>>
             /\ pc'[t] \in {"active", "rd_copy", "rd_post",
                            "committed", "aborted_read"}]_vars

\* a read-only transaction has read a word that a writer committed and its
\* tm_end has returned true
C11_Witness ==
    \E t \in Tx :
        /\ tx[t].is_ro
        /\ pc[t] = "committed"
        /\ rd[t].ok /\ rd[t].v # 0

\* ----------------------------------------------------------------- C12
\* C12: when the tm_end of a transaction has returned true after the commit
\* protocol, every word it wrote (once or several times, whatever was written
\* in between) and that no later commit has overwritten holds the value of the
\* transaction's last tm_write to that word.
C12_LastWriteWins ==
    \A t \in Tx, a \in Addr :
        (/\ CommittedWriter(t)
         /\ WriteCalls(t, a) # {}
         /\ lastW[a] = t)
        => mem[a] = LastWritten(t, a)

\* a committed transaction wrote a word, then another word, then the first
\* word again, and the word holds the value of the third call
C12_Witness ==
    \E t \in Tx, a \in Addr :
        /\ CommittedWriter(t)
        /\ lastW[a] = t
        /\ Len(wlog[t]) = 3
        /\ wlog[t][1][1] = a /\ wlog[t][2][1] # a /\ wlog[t][3][1] = a
        /\ mem[a] = wlog[t][3][2]

\* ----------------------------------------------------------------- C13
\* C13: with MAX_SIMUL_TXS = 0, every tm_end of a transaction that is not
\* read-only and has a non-empty write set returns false, and does so at the
\* admission check: it has drawn no wv (the clock was not incremented by it).
C13_CeilingZeroRefusesWriters ==
    MAX_SIMUL_TXS = 0
    => \A t \in Tx :
          (/\ ~tx[t].is_ro
           /\ tx[t].writeList # <<>>
           /\ pc[t] \in {"committed", "aborted_end"})
          => (pc[t] = "aborted_end" /\ tx[t].wv = -1)

\* ----------------------------------------------------------------- C14
\* C14: no address is in both the read set and the write set of a transaction,
\* whatever the order of its tm_read and tm_write calls; and read-set validation
\* never fails on a stripe that the validating transaction holds itself.
C14_ReadAndWriteSetsDisjoint ==
    \A t \in Tx :
        /\ Addresses(tx[t].readList) \cap Addresses(tx[t].writeList) = {}
        /\ pc[t] = "end_vfail"
           => lock_index(tx[t].readList[loc[t].node].address) \notin WriteStripes(t)

\* ----------------------------------------------------------------- C15
\* C15: after any sequence of tm_write calls the write set has one entry per
\* distinct address written, in first-write order, and each entry holds the
\* value of the last tm_write to its address.
C15_OneEntryPerAddress ==
    \A t \in Tx :
        LET order == FirstWrites(wlog[t], Len(wlog[t]))
        IN  /\ Len(tx[t].writeList) = Len(order)
            /\ \A i \in 1..Len(order) :
                  /\ tx[t].writeList[i].address = order[i]
                  /\ tx[t].writeList[i].val = LastWritten(t, order[i])

\* ----------------------------------------------------------------- C16
\* C16: no lock is leaked or released by a non-holder.  A stripe's lock bit is
\* set exactly while the transaction whose CAS set it has not released it; a
\* transaction that is not inside the commit protocol (its tm_end has returned,
\* with true or false, or was never called) owns no stripe; when no transaction
\* is inside tm_end every lock bit is 0; and every release of the two rollback
\* paths clears the bit of one stripe that is locked by the releasing
\* transaction and changes nothing else.
C16_NoLockLeaked ==
    [][/\ \A s \in Stripe : LockBit(locks'[s]) = 1 <=> owner'[s] # 0
       /\ \A t \in Tx :
             pc'[t] \notin CommitPCs => \A s \in Stripe : owner'[s] # t
       /\ (\A t \in Tx : pc'[t] \notin CommitPCs)
          => \A s \in Stripe : LockBit(locks'[s]) = 0
       /\ \A t \in Tx :
             (/\ StepOf(t)
              /\ pc[t] \in {"end_rollback", "end_vfail"}
              /\ locks' # locks)
             => \E s \in Stripe :
                   /\ owner[s] = t
                   /\ LockBit(locks[s]) = 1
                   /\ locks' = [locks EXCEPT ![s] = @ - 1]]_vars

\* a transaction that found its second stripe held by another has released
\* the one stripe it had acquired
C16_Witness ==
    \E t \in Tx, u \in Tx :
        /\ t # u
        /\ pc[t] = "end_rollback"
        /\ loc[t].node = 2 /\ loc[t].locked_node = 2
        /\ owner[lock_index(tx[t].writeList[2].address)] = u
        /\ LockBit(locks[lock_index(tx[t].writeList[1].address)]) = 0

\* ----------------------------------------------------------------- C17
\* C17: an acquisition sets the lock bit and keeps the version; while the lock
\* bit is 1 the stripe's state changes only by a step of the transaction that
\* acquired it, and that step unlocks it: a rollback release subtracts 1 (the
\* version is the one the stripe had before the acquisition), a
\* set_and_release stores wv * 2.
C17_LockedStripeFrozen ==
    [][\A s \in Stripe :
          /\ (LockBit(locks[s]) = 0 /\ LockBit(locks'[s]) = 1)
             => Version(locks'[s]) = Version(locks[s])
          /\ (LockBit(locks[s]) = 1 /\ locks'[s] # locks[s])
             => /\ owner[s] \in Tx
                /\ StepOf(owner[s])
                /\ LockBit(locks'[s]) = 0
                /\ IF pc[owner[s]] = "end_wb_rel"
                   THEN locks'[s] = tx[owner[s]].wv * 2
                   ELSE /\ pc[owner[s]] \in {"end_rollback", "end_vfail"}
                        /\ Version(locks'[s]) = Version(locks[s])]_vars

\* a rollback has released a stripe that an earlier commit had given a
\* version, and the version is still there
C17_Witness ==
    \E t \in Tx :
        /\ pc[t] = "end_rollback"
        /\ loc[t].locked_node = 2
        /\ LET s == lock_index(tx[t].writeList[1].address)
           IN  /\ Version(locks[s]) >= 1
               /\ LockBit(locks[s]) = 0

\* ----------------------------------------------------------------- C18
\* C18: a step of a transaction changes a shared word or the version of a
\* stripe only during write-back; write-back starts only from the clock
\* increment or the last validated read-set node, with the stripe of every
\* write-set node acquired by the transaction; and a tm_end that has started
\* write-back returns true.  So a transaction whose tm_read or tm_end returns
\* false has changed no shared word and no stripe's version.
C18_AbortLeavesRegionUnchanged ==
    [][\A t \in Tx :
          /\ (/\ StepOf(t)
              /\ \/ mem' # mem
                 \/ \E s \in Stripe : Version(locks'[s]) # Version(locks[s]))
             => pc[t] \in {"end_wb_copy", "end_wb_rel"}
          /\ (pc'[t] = "end_wb_copy" /\ pc[t] \notin {"end_wb_copy", "end_wb_rel"})
             => /\ pc[t] \in {"end_clock", "end_validate"}
                /\ tx'[t].wv # -1
                /\ \A a \in Addresses(tx[t].writeList) :
                      owner[lock_index(a)] = t
          /\ pc[t] \in {"end_wb_copy", "end_wb_rel", "end_dec"}
             => pc'[t] \in {"end_wb_copy", "end_wb_rel", "end_dec", "committed"}
          /\ pc'[t] \in {"aborted_end", "aborted_read"}
             => \A a \in Addr : lastW'[a] # t]_vars

\* a transaction was refused at validation, after it had acquired its stripes
\* and drawn its wv, and none of the words it meant to write is its own
C18_Witness ==
    \E t \in Tx :
        /\ pc[t] = "aborted_end"
        /\ tx[t].wv # -1
        /\ \A a \in Addresses(tx[t].writeList) : mem[a] # BufferedVal(t, a)

\* ----------------------------------------------------------------- C19
\* C19: the transactions inside the commit phase, admitted and counted in
\* current_txs and not yet finished, are as many as current_txs says, and
\* current_txs never exceeds MAX_SIMUL_TXS by more than 2.
C19_CeilingExceededByAtMostTwo ==
    LET inside == {t \in Threads : pc[t] \in CommitPCs \ {"end_inc"}}
    IN  /\ Cardinality(inside) = current_txs
        /\ current_txs <= MAX_SIMUL_TXS + 2

\* ----------------------------------------------------------------- C20
\* C20: current_txs counts exactly the transactions that have executed the
\* fetch_add of their tm_end and not yet the fetch_sub of the exit they take;
\* so it is never negative, it is 0 whenever no transaction is inside the
\* commit phase, and a tm_end that returns at the read-only / empty-write-set
\* check or at the admission check leaves it as it was.
C20_CounterBalanced ==
    [][/\ current_txs' =
             Cardinality({t \in Tx : pc'[t] \in CommitPCs \ {"end_inc"}})
       /\ current_txs' >= 0
       /\ (\A t \in Tx : pc'[t] \notin CommitPCs) => current_txs' = 0
       /\ \A t \in Tx :
             (pc[t] = "active" /\ pc'[t] \in {"committed", "aborted_end"})
             => current_txs' = current_txs
       /\ \A t \in Tx :
             (StepOf(t) /\ current_txs' # current_txs)
             => \/ pc[t] = "end_inc" /\ current_txs' = current_txs + 1
                \/ /\ pc'[t] \in {"committed", "aborted_end"}
                   /\ current_txs' = current_txs - 1]_vars

\* one transaction left tm_end by the successful exit, the other by the
\* validation rollback, and the counter is back at 0
C20_Witness ==
    \E t \in Tx, u \in Tx :
        /\ CommittedWriter(t)
        /\ pc[u] = "aborted_end"
        /\ tx[u].wv # -1
        /\ current_txs = 0

\* ----------------------------------------------------------------- C22
\* C22: a tm_write call returns true (the transaction stays active) and
\* changes the write set of the calling transaction and nothing else: every
\* shared word, every stripe's lock_state, the clock, the admission counter,
\* the transaction's read set, rv and wv, and every other transaction are as
\* they were, whatever the state of the target's stripe.
C22_WriteIsBuffered ==
    [][\A t \in Tx :
          wlog'[t] # wlog[t]
          => /\ UNCHANGED <<mem, locks, clock, current_txs>>
             /\ pc[t] = "active" /\ pc'[t] = "active"
             /\ tx'[t].writeList # tx[t].writeList
             /\ tx'[t] = [tx[t] EXCEPT !.writeList = tx'[t].writeList]
             /\ \A u \in Tx \ {t} : tx'[u] = tx[u]]_vars

\* a transaction that began after another drew its wv has written a word
\* whose stripe that other still holds, with a version the write-back will
\* raise above its rv, and goes on
C22_Witness ==
    \E t \in Tx, u \in Tx :
        /\ t # u
        /\ tx[u].wv # -1
        /\ tx[t].rv = tx[u].wv
        /\ pc[t] = "active"
        /\ wlog[t] # <<>>
        /\ owner[lock_index(wlog[t][1][1])] = u

\* ----------------------------------------------------------------- C21
\* C21: every step of a thread inside tm_read or tm_end brings the call
\* nearer to its return, by a count that depends only on the thread's own
\* position and lists (a contended stripe is given up at once, never loaded
\* again); and under fair scheduling every call returns: a transaction whose
\* host called tm_end reaches committed or aborted, a tm_read returns true or
\* aborts, whatever the other threads do.
C21_NeverWaits ==
    /\ [][\A t \in Tx :
             (StepOf(t) /\ InCall(t)) => StepsLeft(t)' < StepsLeft(t)]_vars
    /\ \A t \in Tx : InCall(t) ~> (pc[t] \in Terminal \cup {"active"})

\* the configuration in which waiting would deadlock: t holds its first
\* stripe and has been turned away from its second, which u holds, while u is
\* about to try the stripe t holds; t is rolling back instead of waiting
C21_Witness ==
    \E t \in Tx, u \in Tx :
        /\ t # u
        /\ pc[t] = "end_rollback"
        /\ loc[t].node = 2 /\ loc[t].locked_node = 1
        /\ owner[lock_index(tx[t].writeList[2].address)] = u
        /\ pc[u] = "end_acq_load"
        /\ loc[u].node = 2
        /\ owner[lock_index(tx[u].writeList[2].address)] = t

====
